---- MODULE Spec2Model ----
(***************************************************************************)
(* Memory consolidation and retrieval engine of react_mcp:                 *)
(* Neo4jService.save_personal_information (Consolidate),                   *)
(* Neo4jService.find_similar_information (Retrieve) and the MilvusService  *)
(* operations they call.  Texts are sequences of one-character strings so  *)
(* that lower(), strip() and CONTAINS are computed, not assumed.           *)
(***************************************************************************)
EXTENDS Integers, Sequences, FiniteSets, Bags, TLC

(* ------------------------------ bounds --------------------------------- *)
\* timestamp() reads at most MaxClock
MaxClock == 1
\* at most MaxFail failures (store, cache or embedding errors) are met by one call
MaxFail == 1

(* ------------------------------ texts ---------------------------------- *)
Pizza == <<"p", "i", "z", "z", "a">>
PizzaCap == <<"P", "i", "z", "z", "a">>
PizzaSp == <<" ", "p", "i", "z", "z", "a">>
Pasta == <<"p", "a", "s", "t", "a">>
Dish == <<"d", "i", "s", "h">>
Like == <<"l", "i", "k", "e">>
Love == <<"l", "o", "v", "e">>
Food == <<"f", "o", "o", "d">>
Empty == <<>>
\* the literal "Category" of the key-node merge
CategoryKey == <<"C", "a", "t", "e", "g", "o", "r", "y">>

UserNames == {"alice", "bob"}
Calls == {1, 2, 3}
NoCall == 0
\* info.get("lifetime", "permanent"): Absent stands for a missing key
Absent == "absent"

\* type(h) of a HAS_CATEGORY edge
HasCategory == <<"H", "A", "S", "_", "C", "A", "T", "E", "G", "O", "R", "Y">>

UpperChars == <<"A", "C", "D", "E", "G", "H", "O", "P", "R", "S", "T", "Y">>
LowerChars == <<"a", "c", "d", "e", "g", "h", "o", "p", "r", "s", "t", "y">>

\* str.lower() on one character
LowerChar(ch) ==
    IF \E i \in 1..Len(UpperChars) : UpperChars[i] = ch
    THEN LowerChars[CHOOSE i \in 1..Len(UpperChars) : UpperChars[i] = ch]
    ELSE ch

\* str.upper() on one character
UpperChar(ch) ==
    IF \E i \in 1..Len(LowerChars) : LowerChars[i] = ch
    THEN UpperChars[CHOOSE i \in 1..Len(LowerChars) : LowerChars[i] = ch]
    ELSE ch

\* str.capitalize()
Capitalize(t) ==
    [i \in 1..Len(t) |-> IF i = 1 THEN UpperChar(t[i]) ELSE LowerChar(t[i])]

\* the texts in use; str.lower, str.strip and the cache key are tabulated for
\* them and computed for any other text
KnownTexts ==
    {Pizza, PizzaCap, PizzaSp, Pasta, Dish, Like, Love, Food, Empty, CategoryKey,
     HasCategory}

\* str.lower()
RECURSIVE LowerSeq(_)
LowerSeq(t) ==
    IF t = <<>> THEN <<>> ELSE <<LowerChar(Head(t))>> \o LowerSeq(Tail(t))

LowerTable == [t \in KnownTexts |-> LowerSeq(t)]

Lower(t) == IF t \in KnownTexts THEN LowerTable[t] ELSE LowerSeq(t)

SetMin(S) == CHOOSE x \in S : \A y \in S : x <= y
SetMax(S) == CHOOSE x \in S : \A y \in S : x >= y

\* str.strip()
StripSeq(t) ==
    LET idx == {i \in 1..Len(t) : t[i] \notin {" ", "\n"}}
    IN  IF idx = {} THEN <<>> ELSE SubSeq(t, SetMin(idx), SetMax(idx))

StripTable == [t \in KnownTexts |-> StripSeq(t)]

Strip(t) == IF t \in KnownTexts THEN StripTable[t] ELSE StripSeq(t)

\* text.replace("\n", " ").strip(): the embedding cache key
EmbedKeySeq(t) == StripSeq([i \in 1..Len(t) |-> IF t[i] = "\n" THEN " " ELSE t[i]])

EmbedKeyTable == [t \in KnownTexts |-> EmbedKeySeq(t)]

EmbedKey(t) == IF t \in KnownTexts THEN EmbedKeyTable[t] ELSE EmbedKeySeq(t)

\* Cypher: s CONTAINS sub
Contains(s, sub) ==
    \E i \in 0..(Len(s) - Len(sub)) : SubSeq(s, i + 1, i + Len(sub)) = sub

MkFact(k, v, r, l) == [key |-> k, value |-> v, relationship |-> r, lifetime |-> l]

(* ------------------------------ state ---------------------------------- *)
VARIABLES
    started,     \* the lifespan start-up block has run
    driver,      \* Neo4jService._driver is not None
    collection,  \* MilvusService._collection is not None
    users,       \* User nodes (usernames)
    nodes,       \* Information nodes: value -> [key, createdAt]
    relates,     \* RELATES_TO edges: <<user, node value, verb>> -> [lifetime, createdAt]
    hascat,      \* HAS_CATEGORY edges: <<node value, category value>>
    milvus,      \* bag of vector records [original_text, element_type, embedding]
    redis,       \* cached embedding keys
    clock,       \* timestamp()
    lock,        \* holder of Neo4jService._milvus_insert_lock
    call,        \* the save_personal_information calls, by slot
    ret          \* outcome of the last find_similar_information call

vars == <<started, driver, collection, users, nodes, relates, hascat, milvus,
          redis, clock, lock, call, ret>>

graphvars == <<users, nodes, relates, hascat>>

NoRet == [kind |-> "none"]

\* a call slot before its call starts, and the locals a finished call leaves
IdleCall ==
    [pc |-> "idle", username |-> "", info_list |-> <<>>, valid |-> <<>>,
     needed |-> {}, ecache |-> {}, i |-> 0, node_id |-> Empty, rel_id |-> FALSE,
     ins |-> <<>>, filtered |-> {}, faults |-> 0, pre |-> <<>>]

\* timestamp(): wall-clock milliseconds, non-decreasing
Stamps == {clock} \cup (IF clock < MaxClock THEN {clock + 1} ELSE {})

B2N(b) == IF b THEN 1 ELSE 0

(* --------------------------- MilvusService ----------------------------- *)
RecordsOf(m, text) == {r \in DOMAIN m : r.original_text = text /\ m[r] > 0}

\* number of vector records stored under text
CountOf(m, text) ==
    LET rs == RecordsOf(m, text)
        RECURSIVE Sum(_)
        Sum(S) == IF S = {} THEN 0
                  ELSE LET r == CHOOSE x \in S : TRUE IN m[r] + Sum(S \ {r})
    IN  Sum(rs)

\* a lookup that finds nothing
NeverFound(m, text, fails) == FALSE

\* get_vector_id_by_text / _sync_get_vector_id_by_text: the stored text, or
\* None (FALSE here) when absent, when the text is blank and when the search fails
GetVectorIdByText(m, text, fails) ==
    LET normalized_text == Lower(Strip(text))
    IN  IF normalized_text = <<>> THEN FALSE
        ELSE IF fails THEN FALSE
        ELSE RecordsOf(m, normalized_text) # {}

\* insert_vectors: the entries prepared from the items
PreparedData(items) ==
    {[original_text |-> Lower(it.original_text), element_type |-> it.element_type,
      embedding |-> it.embedding] : it \in items}

\* collection.insert(data): the primary key is original_text.  What the store
\* does with a key it already holds is the store's: it keeps both entities
\* ("duplicate"), replaces the old one ("overwrite") or refuses the batch
\* ("reject").
InsertClashModes == {"duplicate", "overwrite", "reject"}

SyncInsertVectors(m, data, mode) ==
    LET clash == {d \in data : RecordsOf(m, d.original_text) # {}}
    IN  IF clash = {} \/ mode = "duplicate" THEN m (+) SetToBag(data)
        ELSE IF mode = "reject" THEN m
        ELSE LET kept == {r \in DOMAIN m :
                            \A d \in data : d.original_text # r.original_text}
             IN  [r \in kept |-> m[r]] (+) SetToBag(data)

(* ------------------ save_personal_information: helpers ----------------- *)
\* not all([key_str, value, relationship_verb])
IsValid(info) == info.key # <<>> /\ info.value # <<>> /\ info.relationship # <<>>

RECURSIVE ValidInfoList(_)
ValidInfoList(l) ==
    IF l = <<>> THEN <<>>
    ELSE IF IsValid(Head(l)) THEN <<Head(l)>> \o ValidInfoList(Tail(l))
    ELSE ValidInfoList(Tail(l))

TextsToProcess(valid) ==
    UNION {{valid[j].value, valid[j].relationship, valid[j].key} : j \in 1..Len(valid)}

LifetimeOf(info) == IF info.lifetime = Absent THEN "permanent" ELSE info.lifetime

MkItem(text, type) ==
    [embedding |-> EmbedKey(text), element_type |-> type, original_text |-> Lower(text)]

\* insertion data that leaves out the key text
SkipKeyText(needed, ecache, ins, info, rel_ok) ==
    LET node_text == info.value
        rel_text == info.relationship
        a1 == node_text \in needed /\ node_text \in ecache
        n1 == IF a1 THEN needed \ {node_text} ELSE needed
        i1 == IF a1 THEN Append(ins, MkItem(node_text, "Node")) ELSE ins
        a2 == rel_text \in n1 /\ rel_text \in ecache /\ rel_ok
        n2 == IF a2 THEN n1 \ {rel_text} ELSE n1
        i2 == IF a2 THEN Append(i1, MkItem(rel_text, "Relationship")) ELSE i1
    IN  <<n2, i2>>

\* lines 412-435: the insertion data of one processed fact; returns the new
\* <<embeddings_needed, milvus_insertion_data>>
PrepareInsertion(needed, ecache, ins, info, rel_ok) ==
    LET node_text == info.value
        rel_text == info.relationship
        key_str == info.key
        a1 == node_text \in needed /\ node_text \in ecache
        n1 == IF a1 THEN needed \ {node_text} ELSE needed
        i1 == IF a1 THEN Append(ins, MkItem(node_text, "Node")) ELSE ins
        a2 == rel_text \in n1 /\ rel_text \in ecache /\ rel_ok
        n2 == IF a2 THEN n1 \ {rel_text} ELSE n1
        i2 == IF a2 THEN Append(i1, MkItem(rel_text, "Relationship")) ELSE i1
        a3 == key_str \in n2 /\ key_str \in ecache
        n3 == IF a3 THEN n2 \ {key_str} ELSE n2
        i3 == IF a3 THEN Append(i2, MkItem(key_str, "Node")) ELSE i2
    IN  <<n3, i3>>

\* line 440: {item["original_text"].lower(): item for item in data}.values()
DedupedItems(ins) ==
    {ins[j] : j \in {j \in 1..Len(ins) :
        \A k \in (j + 1)..Len(ins) :
            Lower(ins[k].original_text) # Lower(ins[j].original_text)}}

\* the locals a returned call leaves behind
Returned(r, pcv) ==
    [IdleCall EXCEPT !.pc = pcv, !.username = r.username,
                     !.info_list = r.info_list, !.faults = r.faults,
                     !.pre = r.pre]

\* after the per-fact loop: pass 2, or the return when nothing is to insert
AfterLoop(r) ==
    IF r.ins = <<>> THEN Returned(r, "done") ELSE [r EXCEPT !.pc = "recheck"]

\* the loop's next iteration (the end of the body)
NextInfo(r) ==
    IF r.i < Len(r.valid)
    THEN [r EXCEPT !.i = r.i + 1, !.pc = "find", !.node_id = Empty, !.rel_id = FALSE]
    ELSE AfterLoop(r)

\* an except block that leaves the loop
BreakLoop(r) == AfterLoop(r)

\* lines 347-349 and 408-410: "continue" in an except block of the loop body
Continue(r) == NextInfo(r)

CurInfo(r) == r.valid[r.i]

Running(c) == call[c].pc \notin {"idle", "done", "failed", "raised"}

SetCall(c, r) == call' = [call EXCEPT ![c] = r]

\* the failures call c may still meet
Budget(c) == MaxFail - call[c].faults
MayFail(c) == IF Budget(c) > 0 THEN BOOLEAN ELSE {FALSE}
FailSets(c, S) == {F \in SUBSET S : Cardinality(F) <= Budget(c)}

(* ----------------------------- start-up -------------------------------- *)
\* main.lifespan: neo4j connect, create_indexes, milvus connect in one try
\* block whose exception is logged and swallowed
Startup(neo_ok, milvus_ok) ==
    /\ ~started
    /\ started' = TRUE
    /\ driver' = neo_ok
    /\ collection' = (neo_ok /\ milvus_ok)
    /\ UNCHANGED <<graphvars, milvus, redis, clock, lock, call, ret>>

\* add_user: MERGE (u:User {username}); an exception is logged, None returned
AddUser(u, fails) ==
    /\ started
    /\ driver
    /\ users' = IF fails THEN users ELSE users \cup {u}
    /\ UNCHANGED <<started, driver, collection, nodes, relates, hascat, milvus,
                   redis, clock, lock, call, ret>>

(* ----------------------- save_personal_information --------------------- *)
\* a user check that finds every username
AnyUserRecord(us, username) == TRUE

\* lines 223-228: MATCH (u:User {username: $username}) RETURN u.username;
\* user_record is truthy when the User node exists
UserRecord(us, username) == username \in us

\* lines 221-257: get_driver, the user check, the validation filter
Start(c, username, info_list, seq, fails) ==
    /\ started
    /\ call[c].pc = "idle"
    /\ seq => /\ \A d \in Calls : ~Running(d)
              /\ \A d \in Calls : d < c => call[d].pc # "idle"
    /\ LET r0 == [IdleCall EXCEPT !.username = username, !.info_list = info_list,
                                  !.pre = IF seq THEN <<milvus, relates>> ELSE <<>>]
       IN  IF ~driver THEN SetCall(c, Returned(r0, "raised"))
           ELSE IF fails \/ ~UserRecord(users, username)
           THEN SetCall(c, Returned([r0 EXCEPT !.faults = B2N(fails)], "failed"))
           ELSE SetCall(c, [r0 EXCEPT !.pc = "lock",
                                      !.valid = ValidInfoList(info_list)])
    /\ UNCHANGED <<started, driver, collection, graphvars, milvus, redis, clock,
                   lock, ret>>

\* line 261: async with self._milvus_insert_lock
AcquireLock(c) ==
    /\ call[c].pc = "lock"
    /\ lock = NoCall
    /\ lock' = c
    /\ SetCall(c, [call[c] EXCEPT !.pc = "check"])
    /\ UNCHANGED <<started, driver, collection, graphvars, milvus, redis, clock, ret>>

\* a lock that stays with its holder
HeldLock(c) == c

\* the lock after the check phase (the end of the async with block)
ReleasedLock(c) == NoCall

\* lines 264-285: the existence checks under the lock; failed holds the texts
\* whose lookup fails.  A lookup that raises (no collection) and one that
\* returns None both mark the text as needing an embedding.
CheckMilvus(c, failed) ==
    /\ call[c].pc = "check"
    /\ lock = c
    /\ LET r == call[c]
           texts == TextsToProcess(r.valid)
           needed == {t \in texts :
                        ~collection \/ ~GetVectorIdByText(milvus, t, t \in failed)}
           r1 == [r EXCEPT !.needed = needed,
                           !.faults = r.faults + Cardinality(failed)]
       IN  /\ failed \subseteq texts
           /\ SetCall(c, IF needed # {} THEN [r1 EXCEPT !.pc = "embed"]
                         ELSE IF r.valid # <<>> THEN NextInfo(r1)
                         ELSE AfterLoop(r1))
    /\ lock' = ReleasedLock(c)
    /\ UNCHANGED <<started, driver, collection, graphvars, milvus, redis, clock, ret>>

\* lines 288-306 with generate_embedding (129-162): bad holds the texts whose
\* OpenAI call fails, get_err / set_err say whether the Redis get / set fail
GenerateEmbeddings(c, bad, get_err, set_err) ==
    /\ call[c].pc = "embed"
    /\ LET r == call[c]
           hit == {t \in r.needed : ~get_err /\ EmbedKey(t) \in redis}
           asked == r.needed \ hit
           ok == hit \cup (asked \ bad)
           n == Cardinality(bad) + B2N(get_err) + B2N(set_err)
       IN  /\ bad \subseteq asked
           /\ n <= Budget(c)
           /\ redis' = IF set_err THEN redis
                       ELSE redis \cup {EmbedKey(t) : t \in asked \ bad}
           /\ SetCall(c, NextInfo([r EXCEPT !.needed = ok, !.ecache = ok,
                                            !.faults = r.faults + n]))
    /\ UNCHANGED <<started, driver, collection, graphvars, milvus, clock, lock, ret>>

\* lines 321-331: MATCH (i:Information) WHERE i.value = $value OR i.key = $key,
\* result.single(): the first of the matching records, in no stated order
ExistingNodes(info) ==
    {n \in DOMAIN nodes : n = info.value \/ nodes[n].key = info.key}

FindExisting(c, fails) ==
    /\ call[c].pc = "find"
    /\ LET r == call[c]
           info == CurInfo(r)
       IN  IF fails THEN SetCall(c, Continue([r EXCEPT !.faults = r.faults + 1]))
           ELSE IF ExistingNodes(info) = {}
           THEN SetCall(c, [r EXCEPT !.pc = "create"])
           ELSE \E n \in ExistingNodes(info) :
                  SetCall(c, [r EXCEPT !.node_id = n,
                                !.pc = IF nodes[n].key = CategoryKey
                                          /\ info.key # CategoryKey
                                       THEN "update" ELSE "rel"])
    /\ UNCHANGED <<started, driver, collection, graphvars, milvus, redis, clock,
                   lock, ret>>

\* lines 333-337: a category node used as a fact node takes the fact's key
UpdateKey(c, fails) ==
    /\ call[c].pc = "update"
    /\ LET r == call[c]
       IN  IF fails
           THEN /\ SetCall(c, Continue([r EXCEPT !.faults = r.faults + 1]))
                /\ UNCHANGED nodes
           ELSE /\ nodes' = [nodes EXCEPT ![r.node_id].key = CurInfo(r).key]
                /\ SetCall(c, [r EXCEPT !.pc = "rel"])
    /\ UNCHANGED <<started, driver, collection, users, relates, hascat, milvus,
                   redis, clock, lock, ret>>

\* lines 339-346: CREATE (i:Information {key, value, createdAt, children: []});
\* the constraint information_value refuses a value that exists by now
CreateNode(c, fails) ==
    /\ call[c].pc = "create"
    /\ LET r == call[c]
           info == CurInfo(r)
       IN  IF fails \/ info.value \in DOMAIN nodes
           THEN /\ SetCall(c, Continue([r EXCEPT !.faults = r.faults + B2N(fails)]))
                /\ UNCHANGED <<nodes, clock>>
           ELSE \E t \in Stamps :
                /\ clock' = t
                /\ nodes' = [n \in DOMAIN nodes \cup {info.value} |->
                               IF n = info.value
                               THEN [key |-> info.key, createdAt |-> t]
                               ELSE nodes[n]]
                /\ SetCall(c, [r EXCEPT !.node_id = info.value, !.pc = "rel"])
    /\ UNCHANGED <<started, driver, collection, users, relates, hascat, milvus,
                   redis, lock, ret>>

\* lines 369-380: MERGE (u)-[r:RELATES_TO {value: verb}]->(i), the lifetime
\* set ON CREATE and ON MATCH, createdAt ON CREATE only
MergeRelatesTo(rel, user, node, verb, lifetime, t) ==
    LET e == <<user, node, verb>>
    IN  IF e \in DOMAIN rel THEN [rel EXCEPT ![e].lifetime = lifetime]
        ELSE [x \in DOMAIN rel \cup {e} |->
                IF x = e THEN [lifetime |-> lifetime, createdAt |-> t] ELSE rel[x]]

CreateRelationship(c, fails) ==
    /\ call[c].pc = "rel"
    /\ LET r == call[c]
           info == CurInfo(r)
       IN  IF fails
           THEN /\ SetCall(c, Continue([r EXCEPT !.faults = r.faults + 1]))
                /\ UNCHANGED <<relates, clock>>
           ELSE \E t \in Stamps :
                /\ clock' = t
                /\ relates' = MergeRelatesTo(relates, r.username, r.node_id,
                                             info.relationship, LifetimeOf(info), t)
                /\ SetCall(c, [r EXCEPT !.rel_id = TRUE, !.pc = "cat"])
    /\ UNCHANGED <<started, driver, collection, users, nodes, hascat, milvus,
                   redis, lock, ret>>

\* a step 2c that merges nothing
NoKeyNode(ns, key_value, t) == ns

\* lines 382-396: MERGE (k:Information {value: $key_value}), k.key = "Category"
\* ON CREATE and ON MATCH
MergeKeyNode(ns, key_value, t) ==
    IF key_value \in DOMAIN ns THEN [ns EXCEPT ![key_value].key = CategoryKey]
    ELSE [n \in DOMAIN ns \cup {key_value} |->
            IF n = key_value THEN [key |-> CategoryKey, createdAt |-> t] ELSE ns[n]]

CreateKeyNode(c, fails) ==
    /\ call[c].pc = "cat"
    /\ LET r == call[c]
       IN  IF fails
           THEN /\ SetCall(c, Continue([r EXCEPT !.faults = r.faults + 1]))
                /\ UNCHANGED <<nodes, clock>>
           ELSE \E t \in Stamps :
                /\ clock' = t
                /\ nodes' = MergeKeyNode(nodes, CurInfo(r).key, t)
                /\ SetCall(c, [r EXCEPT !.pc = "hier"])
    /\ UNCHANGED <<started, driver, collection, users, relates, hascat, milvus,
                   redis, lock, ret>>

\* lines 398-435: MERGE (i)-[h:HAS_CATEGORY]->(k), then the insertion data
CreateHierarchy(c, fails) ==
    /\ call[c].pc = "hier"
    /\ LET r == call[c]
           info == CurInfo(r)
           p == PrepareInsertion(r.needed, r.ecache, r.ins, info, r.rel_id)
       IN  IF fails
           THEN /\ SetCall(c, Continue([r EXCEPT !.faults = r.faults + 1]))
                /\ UNCHANGED hascat
           ELSE /\ hascat' = hascat \cup {<<r.node_id, info.key>>}
                /\ SetCall(c, NextInfo([r EXCEPT !.needed = p[1], !.ins = p[2]]))
    /\ UNCHANGED <<started, driver, collection, users, nodes, relates, milvus,
                   redis, clock, lock, ret>>

\* a re-check that skips nothing
KeepAllItems(m, items, failed) == items

\* lines 443-454: the items of the batch that the re-check does not find; a
\* lookup that fails or raises keeps the item
FilteredItems(m, items, failed) ==
    {it \in items : ~collection
                    \/ ~GetVectorIdByText(m, it.original_text, it \in failed)}

\* lines 438-456: deduplicate the batch and re-check each text
Recheck(c, failed) ==
    /\ call[c].pc = "recheck"
    /\ LET r == call[c]
           items == DedupedItems(r.ins)
           filtered == FilteredItems(milvus, items, failed)
           r1 == [r EXCEPT !.faults = r.faults + Cardinality(failed)]
       IN  /\ failed \subseteq items
           /\ SetCall(c, IF filtered = {} THEN Returned(r1, "done")
                         ELSE [r1 EXCEPT !.filtered = filtered, !.pc = "insert"])
    /\ UNCHANGED <<started, driver, collection, graphvars, milvus, redis, clock,
                   lock, ret>>

\* lines 457-472 with insert_vectors (315-344): the batched insert; an
\* exception of the store is logged and the call returns True
InsertVectors(c, fails, mode) ==
    /\ call[c].pc = "insert"
    /\ LET r == call[c]
       IN  /\ milvus' = IF fails \/ ~collection THEN milvus
                        ELSE SyncInsertVectors(milvus, PreparedData(r.filtered), mode)
           /\ SetCall(c, Returned([r EXCEPT !.faults = r.faults + B2N(fails)], "done"))
    /\ UNCHANGED <<started, driver, collection, graphvars, redis, clock, lock, ret>>

\* one step of call c past its start
ConsolidateStep(c) ==
    \/ AcquireLock(c)
    \/ \E F \in FailSets(c, TextsToProcess(call[c].valid)) : CheckMilvus(c, F)
    \/ \E B \in FailSets(c, call[c].needed), g, s \in MayFail(c) :
          GenerateEmbeddings(c, B, g, s)
    \/ \E f \in MayFail(c) : FindExisting(c, f)
    \/ \E f \in MayFail(c) : UpdateKey(c, f)
    \/ \E f \in MayFail(c) : CreateNode(c, f)
    \/ \E f \in MayFail(c) : CreateRelationship(c, f)
    \/ \E f \in MayFail(c) : CreateKeyNode(c, f)
    \/ \E f \in MayFail(c) : CreateHierarchy(c, f)
    \/ \E F \in FailSets(c, DedupedItems(call[c].ins)) : Recheck(c, F)
    \/ \E f \in MayFail(c), mode \in InsertClashModes : InsertVectors(c, f, mode)

(* ----------------------- find_similar_information ---------------------- *)
\* every ordering of the finite set S by key descending (ties in any order)
\* (key is a function on S)
RECURSIVE SortedDesc(_, _)
SortedDesc(S, key) ==
    IF S = {} THEN {<<>>}
    ELSE UNION {{<<x>> \o s : s \in SortedDesc(S \ {x}, key)} :
                  x \in {y \in S : \A z \in S : key[y] >= key[z]}}

\* every ordering of the finite set S
AnyOrder(S) == SortedDesc(S, [x \in S |-> 0])

\* LIMIT n
Limit(s, n) == SubSeq(s, 1, IF Len(s) < n THEN Len(s) ELSE n)

\* the cosine score of two embeddings, each named by the text embedded: 2 for
\* the same text, 1 for texts that differ by case only or are close in meaning
RelatedTexts == {{Food, Dish}, {Like, Love}}

Cosine(a, b) ==
    IF a = b THEN 2
    ELSE IF Lower(a) = Lower(b) \/ {Lower(a), Lower(b)} \in RelatedTexts THEN 1
    ELSE 0

\* the entities of the collection, one per copy of a record
Entities(m) == UNION {{<<r, n>> : n \in 1..m[r]} : r \in DOMAIN m}

\* lines 104-129 of _sync_search_vectors on the hit groups (one list of
\* entities per query vector, best first)
RECURSIVE ProcessHits(_, _, _, _)
ProcessHits(hits, q, similarity_threshold, acc) ==
    IF hits = <<>> THEN acc
    ELSE LET r == Head(hits)[1]
             score == Cosine(q, r.embedding)
             seen == {acc[j].original_text : j \in 1..Len(acc)}
             take == score >= similarity_threshold
                     /\ r.original_text # <<>> /\ r.original_text \notin seen
         IN  ProcessHits(Tail(hits), q, similarity_threshold,
                         IF take
                         THEN Append(acc, [original_text |-> r.original_text,
                                           element_type |-> r.element_type,
                                           score |-> score])
                         ELSE acc)

\* list.sort(key=score, reverse=True): stable
RECURSIVE StableSortDesc(_)
StableSortDesc(s) ==
    IF s = <<>> THEN <<>>
    ELSE LET best == CHOOSE j \in 1..Len(s) :
                        /\ \A k \in 1..Len(s) : s[j].score >= s[k].score
                        /\ \A k \in 1..(j - 1) : s[k].score < s[j].score
         IN  <<s[best]>> \o
             StableSortDesc(SubSeq(s, 1, best - 1) \o SubSeq(s, best + 1, Len(s)))

\* the entities a search for q can rank above those of cosine 0 (these come
\* last in every hit list and pass no threshold in Thresholds)
Near(m, q) == {e \in Entities(m) : Cosine(q, e[1].embedding) > 0}

\* _sync_search_vectors: the possible results (the store orders equal scores
\* as it likes); queries is the list of query embeddings
RECURSIVE SearchGroups(_, _, _, _, _)
SearchGroups(m, queries, top_k, similarity_threshold, acc) ==
    IF queries = <<>> THEN {Limit(StableSortDesc(acc), top_k)}
    ELSE LET q == Head(queries)
             score == [e \in Near(m, q) |-> Cosine(q, e[1].embedding)]
         IN  UNION {SearchGroups(m, Tail(queries), top_k, similarity_threshold,
                                 ProcessHits(Limit(hits, top_k * 5), q,
                                             similarity_threshold, acc)) :
                      hits \in SortedDesc(Near(m, q), score)}

SyncSearchVectors(m, queries, top_k, similarity_threshold) ==
    SearchGroups(m, queries, top_k, similarity_threshold, <<>>)

\* query 1, first branch: the user's edges whose verb or node value is a
\* relevant text
DirectEdges(username, texts) ==
    {e \in DOMAIN relates : e[1] = username /\ (e[3] \in texts \/ e[2] \in texts)}

EdgeRow(e) ==
    [rel_id |-> <<"RELATES_TO", e>>, relationship |-> e[3],
     node_key |-> nodes[e[2]].key, node_value |-> e[2],
     created_at |-> nodes[e[2]].createdAt, lifetime |-> relates[e].lifetime,
     parent_relationship |-> Empty, parent_value |-> Empty]

EdgeRows(d) == [j \in 1..Len(d) |-> EdgeRow(d[j])]

\* the paths (u)-[r]->(i)-[h]->(j) from the edges E
CategoryPaths(E) == {<<e, h>> \in E \X hascat : h[1] = e[2]}

\* query 1, second branch
ParentRow(p) ==
    [rel_id |-> <<"HAS_CATEGORY", p[2]>>, relationship |-> HasCategory,
     node_key |-> nodes[p[2][2]].key, node_value |-> p[2][2],
     created_at |-> nodes[p[2][2]].createdAt, lifetime |-> "",
     parent_relationship |-> p[1][3], parent_value |-> p[1][2]]

\* query 2: no parent columns
ChildRow(p) ==
    [ParentRow(p) EXCEPT !.parent_relationship = Empty, !.parent_value = Empty]

ParentRows(c) == [j \in 1..Len(c) |-> ParentRow(c[j])]
ChildRows(c) == [j \in 1..Len(c) |-> ChildRow(c[j])]

\* child.createdAt / i.createdAt, the sort keys
PathStamp(P) == [p \in P |-> nodes[p[2][2]].createdAt]
EdgeStamp(E) == [e \in E |-> nodes[e[2]].createdAt]

\* query 1 (lines 516-547): ORDER BY and LIMIT belong to the RETURN of the
\* second branch of the UNION ALL
Query1(username, texts, top_k) ==
    {EdgeRows(d) \o ParentRows(Limit(c, top_k * 5)) :
        d \in AnyOrder(DirectEdges(username, texts)),
        c \in SortedDesc(CategoryPaths(DirectEdges(username, texts)),
                         PathStamp(CategoryPaths(DirectEdges(username, texts))))}

\* query 2 (lines 573-584)
UserEdges(username) == {e \in DOMAIN relates : e[1] = username}

Query2(username, top_k) ==
    {ChildRows(Limit(c, top_k * 3)) :
        c \in SortedDesc(CategoryPaths(UserEdges(username)),
                         PathStamp(CategoryPaths(UserEdges(username))))}

\* query 3 (lines 600-613)
SimilarEdges(username, texts) ==
    {e \in UserEdges(username) :
        \E t \in texts : Contains(e[3], t) \/ Contains(Lower(e[3]), Lower(t))}

Query3(username, texts, top_k) ==
    {EdgeRows(Limit(d, top_k * 3)) :
        d \in SortedDesc(SimilarEdges(username, texts),
                         EdgeStamp(SimilarEdges(username, texts)))}

\* a merge that keeps every record
KeepDuplicates(rows, acc) == rows

\* lines 630-650: the first record of each rel_id, in order
RECURSIVE MergeResults(_, _)
MergeResults(rows, acc) ==
    IF rows = <<>> THEN acc
    ELSE MergeResults(Tail(rows),
            IF \E j \in 1..Len(acc) : acc[j].rel_id = Head(rows).rel_id
            THEN acc ELSE Append(acc, Head(rows)))

FactSentence(rel, val, created_at, lifetime) ==
    [form |-> "fact", relationship |-> rel, value |-> val,
     recorded |-> created_at, lifetime |-> lifetime]

CategorySentence(pv, key, cv) ==
    [form |-> "category", subject |-> Capitalize(pv), key |-> key, object |-> cv]

\* a check that never stops the loop
NeverStop(out, top_k) == FALSE

\* the check that follows the first sentence of a category record (line 678)
StopAfterParent(out, top_k) == Len(out) >= top_k

\* lines 652-713: the rendering loop
RECURSIVE Render(_, _, _, _)
Render(rows, top_k, out, seen) ==
    IF rows = <<>> \/ Len(out) >= top_k THEN out
    ELSE LET rec == Head(rows)
             rest == Tail(rows)
         IN  IF rec.parent_relationship # Empty /\ rec.parent_value # Empty
             THEN LET pr == Lower(rec.parent_relationship)
                      pv == Lower(rec.parent_value)
                      out1 == Append(out, FactSentence(pr, pv, rec.created_at,
                                                       rec.lifetime))
                      out2 == Append(out1, CategorySentence(pv, Lower(rec.node_key),
                                                            Lower(rec.node_value)))
                  IN  IF StopAfterParent(out1, top_k) THEN out1
                      ELSE Render(rest, top_k, out2, seen)
             ELSE LET rel_verb == Lower(rec.relationship)
                      node_val == Lower(rec.node_value)
                      info_tuple == <<rel_verb, node_val, Lower(rec.node_key)>>
                  IN  IF rel_verb = <<>> \/ node_val = <<>> \/ info_tuple \in seen
                      THEN Render(rest, top_k, out, seen)
                      ELSE Render(rest, top_k,
                                  Append(out, FactSentence(rel_verb, node_val,
                                                rec.created_at, rec.lifetime)),
                                  seen \cup {info_tuple})

SeqToSet(s) == {s[j] : j \in 1..Len(s)}

\* the elements of s that are in S, in order
RECURSIVE Select(_, _)
Select(s, S) ==
    IF s = <<>> THEN <<>>
    ELSE (IF Head(s) \in S THEN <<Head(s)>> ELSE <<>>) \o Select(Tail(s), S)

\* what a call leaves in ret: its arguments, its outcome, and what it met on
\* the way: valid_embeddings, the relevant texts, the graph queries it issued,
\* those of them that raised, and the merged records it rendered
Outcome(kind, username, keywords, top_k, sentences, embeddings, texts, queries, qfail, rows) ==
    [kind |-> kind, username |-> username, keywords |-> keywords, top_k |-> top_k,
     sentences |-> sentences, valid_embeddings |-> embeddings, texts |-> texts,
     queries |-> queries, qfail |-> qfail, rows |-> rows]

\* get_driver() at line 482: the driver, or ConnectionError
DriverReady == driver

\* a gate that lets every search result through
PassGate(milvus_results) == FALSE

\* line 499: if not milvus_results: return []
NoResults(milvus_results) == milvus_results = <<>>

\* find_similar_information as one step.  bad: the keywords whose OpenAI call
\* fails; get_err, set_err: the Redis get / set fail; search_fails: the Milvus
\* search fails; qfail: the graph queries (1, 2, 3) that raise
Retrieve(username, keywords, top_k, similarity_threshold, bad, get_err, set_err, search_fails, qfail) ==
    /\ started
    /\ ret = NoRet
    /\ \A c \in Calls : ~Running(c)
    /\ LET Out(kind, sentences, embeddings, texts, queries, rows) ==
               Outcome(kind, username, keywords, top_k, sentences, embeddings,
                       texts, queries, qfail \cap queries, rows)
           kws == SeqToSet(keywords)
           hit == {k \in kws : k # <<>> /\ ~get_err /\ EmbedKey(k) \in redis}
           asked == {k \in kws : k # <<>>} \ hit
           usable == hit \cup (asked \ bad)
           kept == Select(keywords, usable)
           valid_embeddings == [j \in 1..Len(kept) |-> EmbedKey(kept[j])]
       IN  IF keywords = <<>>
           THEN ret' = Out("list", <<>>, <<>>, {}, {}, <<>>) /\ UNCHANGED redis
           ELSE IF ~DriverReady
           THEN ret' = Out("raised", <<>>, <<>>, {}, {}, <<>>) /\ UNCHANGED redis
           ELSE
             /\ bad \subseteq asked
             /\ redis' = IF set_err THEN redis
                         ELSE redis \cup {EmbedKey(k) : k \in asked \ bad}
             /\ IF valid_embeddings = <<>> \/ ~collection \/ search_fails
                THEN ret' = Out("list", <<>>, valid_embeddings, {}, {}, <<>>)
                ELSE \E res \in SyncSearchVectors(milvus, valid_embeddings, top_k * 3,
                                                  similarity_threshold) :
                     LET texts == {res[j].original_text : j \in 1..Len(res)}
                     IN  IF NoResults(res)
                         THEN ret' = Out("list", <<>>, valid_embeddings, {}, {}, <<>>)
                         ELSE \E q1 \in IF 1 \in qfail \/ texts = {} THEN {<<>>}
                                        ELSE Query1(username, texts, top_k),
                                 q2 \in IF 2 \in qfail THEN {<<>>}
                                        ELSE Query2(username, top_k),
                                 q3 \in IF 3 \in qfail THEN {<<>>}
                                        ELSE Query3(username, texts \cup kws, top_k) :
                              LET rows == MergeResults(q1 \o q2 \o q3, <<>>)
                              IN  ret' = Out("list", Render(rows, top_k, <<>>, {}),
                                             valid_embeddings, texts,
                                             (IF texts = {} THEN {} ELSE {1}) \cup {2, 3},
                                             rows)
    /\ UNCHANGED <<started, driver, collection, graphvars, milvus, clock, lock, call>>

\* search_vectors (lines 346-364) as one step: ConnectionError without a
\* collection, [] for no query embedding, else the processed hits
SearchVectors(query_embeddings, top_k, similarity_threshold) ==
    /\ started
    /\ ret = NoRet
    /\ \E res \in IF ~collection THEN {"raised"}
                   ELSE IF query_embeddings = <<>> THEN {<<>>}
                   ELSE SyncSearchVectors(milvus, query_embeddings, top_k,
                                          similarity_threshold) :
          ret' = [kind |-> "hits", query_embeddings |-> query_embeddings,
                  top_k |-> top_k, similarity_threshold |-> similarity_threshold,
                  hits |-> res]
    /\ UNCHANGED <<started, driver, collection, graphvars, milvus, redis, clock,
                   lock, call>>

(* --------------------------- specifications ---------------------------- *)
\* after construction: no driver, no collection, empty stores; the graph holds
\* the users registered so far (registered) and timestamp() reads now
InitWith(registered, now) ==
    /\ started = FALSE
    /\ driver = FALSE
    /\ collection = FALSE
    /\ users = registered
    /\ nodes = <<>>
    /\ relates = <<>>
    /\ hascat = {}
    /\ milvus = EmptyBag
    /\ redis = {}
    /\ clock = now
    /\ lock = NoCall
    /\ call = [c \in Calls |-> IdleCall]
    /\ ret = NoRet

\* the facts of concurrent calls
ConcFacts ==
    {MkFact(Dish, Pizza, Like, "permanent"),
     MkFact(Dish, PizzaCap, Love, Absent),
     MkFact(Pizza, Dish, Like, "short")}

ConcLists == {<<f>> : f \in ConcFacts}

\* two concurrent calls: the first is alice's, the second alice's or bob's
ConcCalls == {1, 2}
ConcUsers(c) == IF c = 1 THEN {"alice"} ELSE UserNames

\* concurrent calls of registered users, all writes within one millisecond
Init == InitWith({"alice"}, MaxClock)

Next ==
    \/ \E n, m \in BOOLEAN : Startup(n, m)
    \/ \E u \in UserNames, f \in BOOLEAN : AddUser(u, f)
    \/ \E c \in ConcCalls : \E u \in ConcUsers(c), l \in ConcLists, f \in BOOLEAN :
          Start(c, u, l, FALSE, f)
    \/ \E c \in ConcCalls : ConsolidateStep(c)

Spec == Init /\ [][Next]_vars

(* sequential calls: a first call of alice or bob, a second call of alice,  *)
(* and a third call that repeats the second                                  *)
FactA == MkFact(Dish, Pizza, Like, "permanent")
FactB == MkFact(Dish, Pizza, Love, "permanent")
FactC == MkFact(Dish, Pasta, Love, "short")
FactD == MkFact(Pasta, Dish, Like, Absent)
\* a fact without a relationship
FactI == MkFact(Dish, Pizza, Empty, "permanent")

\* a fact whose value is the value of FactA under another key
FactE == MkFact(Pasta, Pizza, Like, "permanent")

SeqLists ==
    {<<FactA>>, <<FactB>>, <<FactD>>, <<FactE>>, <<FactA, FactC>>, <<FactI, FactC>>}

SeqInit == InitWith({"alice"}, MaxClock)

SeqUsers(c) == IF c = 1 THEN UserNames ELSE {"alice"}
SeqArgs(c) ==
    IF c = 3 THEN {call[2].info_list} \cap SeqLists ELSE SeqLists

SeqNext ==
    \/ \E n, m \in BOOLEAN : Startup(n, m)
    \/ \E c \in Calls : \E u \in SeqUsers(c), l \in SeqArgs(c), f \in BOOLEAN :
          Start(c, u, l, TRUE, f)
    \/ \E c \in Calls : ConsolidateStep(c)

SeqSpec == SeqInit /\ [][SeqNext]_vars

(* sequential calls that build the stores, then one retrieval *)
MaxTopK == 3

RetNames == UserNames \cup {"carol"}
RetCalls == {1, 2}
RetLists(c) == IF c = 1 THEN {<<FactA>>} ELSE {<<FactB>>, <<FactD>>}
RetUsers(c) == IF c = 1 THEN {"alice"} ELSE UserNames
RetKeywords == {<<>>, <<Pizza>>, <<Like>>, <<Food>>, <<Food, Pasta>>, <<Food, Like>>}
Thresholds == {1}

\* the failures one find_similar_information call meets
RetFaults ==
    {f \in [bad : SUBSET {Food, Pizza, Like, Pasta}, get_err : BOOLEAN,
            set_err : BOOLEAN, search_fails : BOOLEAN, qfail : SUBSET {1, 2, 3}] :
        Cardinality(f.bad) + B2N(f.get_err) + B2N(f.set_err) + B2N(f.search_fails)
          + Cardinality(f.qfail) <= MaxFail}

RetInit == InitWith(UserNames, MaxClock)

RetNext ==
    \/ \E n, m \in BOOLEAN : Startup(n, m)
    \/ \E c \in RetCalls : \E u \in RetUsers(c), l \in RetLists(c), f \in BOOLEAN :
          ret = NoRet /\ Start(c, u, l, TRUE, f)
    \/ \E c \in RetCalls : ConsolidateStep(c)
    \/ \E u \in RetNames, k \in RetKeywords, top_k \in 0..MaxTopK,
          th \in Thresholds, f \in RetFaults :
          Retrieve(u, k, top_k, th, f.bad, f.get_err, f.set_err, f.search_fails,
                   f.qfail)

RetSpec == RetInit /\ [][RetNext]_vars

(* two sequential calls of alice whose writes fall into different          *)
(* milliseconds, then one retrieval                                         *)
RecLists(c) == IF c = 1 THEN {<<FactA>>} ELSE {<<FactB>>, <<FactD>>}
RecKeywords == {<<Pizza>>, <<Like>>}

RecInit == InitWith(UserNames, 0)

RecNext ==
    \/ \E n, m \in BOOLEAN : Startup(n, m)
    \/ \E c \in RetCalls : \E l \in RecLists(c), f \in BOOLEAN :
          ret = NoRet /\ Start(c, "alice", l, TRUE, f)
    \/ \E c \in RetCalls : ConsolidateStep(c)
    \/ \E k \in RecKeywords, top_k \in 0..MaxTopK, th \in Thresholds, f \in RetFaults :
          Retrieve("alice", k, top_k, th, f.bad, f.get_err, f.set_err,
                   f.search_fails, f.qfail)

RecSpec == RecInit /\ [][RecNext]_vars

(* two sequential calls of alice whose values differ by case or by a        *)
(* leading blank                                                            *)
FactS == MkFact(Dish, PizzaSp, Like, "permanent")
FactP == MkFact(Dish, PizzaCap, Like, "permanent")

NormLists == {<<FactA>>, <<FactS>>, <<FactP>>, <<FactD>>}

NormInit == InitWith({"alice"}, MaxClock)

NormNext ==
    \/ \E n, m \in BOOLEAN : Startup(n, m)
    \/ \E c \in RetCalls : \E l \in NormLists, f \in BOOLEAN :
          Start(c, "alice", l, TRUE, f)
    \/ \E c \in RetCalls : ConsolidateStep(c)

NormSpec == NormInit /\ [][NormNext]_vars

(* concurrent calls under fair scheduling *)
LiveCalls == {1, 2}
LiveLists == {<<FactA>>, <<FactD>>}

LiveNext ==
    \/ \E n, m \in BOOLEAN : Startup(n, m)
    \/ \E c \in LiveCalls : \E l \in LiveLists, f \in BOOLEAN :
          Start(c, "alice", l, FALSE, f)
    \/ \E c \in LiveCalls : ConsolidateStep(c)

\* the event loop runs every task that can take a step
LiveSpec ==
    /\ Init
    /\ [][LiveNext]_vars
    /\ \A c \in LiveCalls : WF_vars(ConsolidateStep(c))

(* searches of a collection that holds one record per text *)
SearchTexts == {Pizza, Pasta, Dish, Like, Love}
SearchRecords == PreparedData({MkItem(t, "Node") : t \in SearchTexts})
SearchQueries ==
    {<<>>} \cup {<<a>> : a \in {Food, Dish, Like, Love}}
           \cup {<<a, b>> : a, b \in {Food, Dish, Like, Love}}
SearchThresholds == {1, 2}

\* after start-up, the collection connected or not, with the records of any
\* set of texts inserted
SearchInit ==
    /\ started = TRUE
    /\ driver = TRUE
    /\ collection \in BOOLEAN
    /\ users = UserNames
    /\ nodes = <<>>
    /\ relates = <<>>
    /\ hascat = {}
    /\ \E S \in SUBSET SearchRecords : milvus = SetToBag(S)
    /\ redis = {}
    /\ clock = MaxClock
    /\ lock = NoCall
    /\ call = [c \in Calls |-> IdleCall]
    /\ ret = NoRet

SearchNext ==
    \E q \in SearchQueries, top_k \in 0..MaxTopK, th \in SearchThresholds :
        SearchVectors(q, top_k, th)

SearchSpec == SearchInit /\ [][SearchNext]_vars

(* --------------------------- properties -------------------------------- *)
\* the texts of the vector records, and the RELATES_TO edges with their lifetime
VectorTexts(m) == {r.original_text : r \in {x \in DOMAIN m : m[x] > 0}}
RelatesEdges(rel) == {<<e, rel[e].lifetime>> : e \in DOMAIN rel}
\* call c returned True without meeting any failure, the vector store connected
CleanRun(c) == call[c].pc = "done" /\ call[c].faults = 0 /\ collection

\* C1: in every reachable state of concurrent save_personal_information
\* calls, the collection holds at most one record per (lowercased) text.
C1_OneRecordPerText ==
    \A r \in DOMAIN milvus : CountOf(milvus, r.original_text) <= 1

\* C2: running save_personal_information a second time with the same user and
\* the same list of valid facts leaves the vector records and the RELATES_TO
\* edges (user, value, verb, lifetime) as the first run left them.
C2_Idempotent ==
    (/\ CleanRun(2) /\ CleanRun(3)
     /\ call[3].username = call[2].username
     /\ call[3].info_list = call[2].info_list
     /\ ValidInfoList(call[3].info_list) = call[3].info_list)
    => /\ milvus = call[3].pre[1]
       /\ RelatesEdges(relates) = RelatesEdges(call[3].pre[2])

\* Scenario A has run as the first call and nothing has run since
AfterScenarioA ==
    /\ CleanRun(1)
    /\ call[1].username = "alice"
    /\ call[1].info_list = <<FactA>>
    /\ call[1].pre = <<EmptyBag, <<>>>>

\* C3 (Scenario A): from a store holding only the user alice, saving
\* (dish, pizza, like, permanent) without failure ends with the fact node pizza
\* of key dish, one edge alice -like-> pizza, the category node dish, one
\* HAS_CATEGORY edge pizza -> dish and the three records pizza, like, dish.
C3_ScenarioA ==
    (AfterScenarioA /\ call[2].pc = "idle")
    => /\ users = {"alice"}
       /\ DOMAIN nodes = {Pizza, Dish}
       /\ nodes[Pizza].key = Dish
       /\ nodes[Dish].key = CategoryKey
       /\ RelatesEdges(relates) = {<<<<"alice", Pizza, Like>>, "permanent">>}
       /\ hascat = {<<Pizza, Dish>>}
       /\ VectorTexts(milvus) = {Pizza, Like, Dish}
       /\ BagCardinality(milvus) = 3

C3_Witness ==
    AfterScenarioA /\ call[2].pc = "idle" /\ Pizza \in DOMAIN nodes

\* Scenario B has run right after Scenario A
AfterScenarioB ==
    /\ AfterScenarioA
    /\ CleanRun(2)
    /\ call[2].username = "alice"
    /\ call[2].info_list = <<FactB>>
    /\ call[3].pc = "idle"

\* C4 (Scenario B): after Scenario A, saving (dish, pizza, love) for alice adds
\* the edge alice -love-> pizza next to the like edge, adds no node, and
\* inserts the one record love; the records pizza and dish stay as they were.
C4_ScenarioB ==
    AfterScenarioB
    => /\ DOMAIN relates = {<<"alice", Pizza, Like>>, <<"alice", Pizza, Love>>}
       /\ DOMAIN nodes = {Pizza, Dish}
       /\ nodes[Pizza].key = Dish
       /\ nodes[Dish].key = CategoryKey
       /\ hascat = {<<Pizza, Dish>>}
       /\ \E r \in DOMAIN milvus :
             /\ r.original_text = Love
             /\ milvus = call[2].pre[1] (+) SetToBag({r})
       /\ BagCardinality(milvus) = 4

C4_Witness ==
    AfterScenarioB /\ <<"alice", Pizza, Love>> \in DOMAIN relates

\* the facts of a list, and the texts of a set of facts
FactsOf(l) == {l[j] : j \in 1..Len(l)}
TextsOf(F) == UNION {{f.key, f.value, f.relationship} : f \in F} \ {Empty}
ValidFactsSoFar == UNION {{f \in FactsOf(call[c].info_list) : IsValid(f)} : c \in Calls}

\* C5: when a list holds facts without key, value or relationship, every
\* other fact of the list still gets its fact node, its RELATES_TO edge, its
\* category node, its HAS_CATEGORY edge and its vectors, and the invalid facts
\* add no node and no vector.
C5_InvalidDropped ==
    \A c \in Calls :
      (CleanRun(c) /\ \E f \in FactsOf(call[c].info_list) : ~IsValid(f))
      => /\ \A f \in FactsOf(call[c].info_list) :
               IsValid(f) =>
                 /\ f.value \in DOMAIN nodes
                 /\ <<call[c].username, f.value, f.relationship>> \in DOMAIN relates
                 /\ f.key \in DOMAIN nodes
                 /\ <<f.value, f.key>> \in hascat
                 /\ \A t \in TextsOf({f}) : CountOf(milvus, Lower(t)) >= 1
         /\ \A t \in TextsOf(FactsOf(call[c].info_list)) \ TextsOf(ValidFactsSoFar) :
               t \notin DOMAIN nodes /\ CountOf(milvus, Lower(t)) = 0

\* C6: a list that find_similar_information returns has at most top_k
\* sentences, also when the loop stops inside a record that renders two.
C6_AtMostTopK ==
    ret.kind = "list" => Len(ret.sentences) <= ret.top_k

\* the loop stopped after the first sentence of a category record
C6_Witness ==
    /\ ret.kind = "list"
    /\ ret.top_k = 2
    /\ Len(ret.sentences) = 2
    /\ Len(ret.rows) >= 2
    /\ ret.rows[1].parent_relationship = Empty
    /\ ret.rows[2].parent_relationship # Empty

\* C7: find_similar_information for a username without RELATES_TO edges or
\* without a User node returns the empty list and no error.
C7_NoFactsEmptyList ==
    (ret # NoRet /\ (ret.username \notin users \/ UserEdges(ret.username) = {}))
    => ret.kind = "list" /\ ret.sentences = <<>>

\* C8: a call that gets to the embeddings and finds no usable one, or whose
\* search yields no relevant text, returns the empty list and issues none of
\* the graph queries.
C8_VectorGate ==
    (ret.kind = "list" /\ (ret.valid_embeddings = <<>> \/ ret.texts = {}))
    => ret.sentences = <<>> /\ ret.queries = {}

\* no usable embedding for a keyword that the index holds and that a verb of
\* the user's edges contains
C8_Witness ==
    /\ ret.kind = "list"
    /\ ret.keywords # <<>>
    /\ ret.valid_embeddings = <<>>
    /\ \E e \in UserEdges(ret.username), k \in SeqToSet(ret.keywords) :
          Contains(e[3], k) /\ CountOf(milvus, k) >= 1

\* C9: find_similar_information never ends in an error, whatever fails.
C9_NeverRaises ==
    ret.kind # "raised"

\* C11: a save_personal_information call whose user check finds no User node,
\* or fails, returns False at once: the step that ends the check changes no
\* node, edge, vector record or cached embedding and leaves the call without
\* texts to embed, and a call that returned False takes no further step.
C11_HardFailure ==
    [][\A c \in Calls :
         /\ (call[c].pc = "idle" /\ call'[c].pc # "idle" /\ driver
               /\ call'[c].username \notin users)
            => call'[c].pc = "failed"
         /\ (call[c].pc = "idle" /\ call'[c].pc = "failed")
            => /\ UNCHANGED <<graphvars, milvus, redis>>
               /\ call'[c].needed = {} /\ call'[c].ecache = {}
               /\ call'[c].ins = <<>>
         /\ call[c].pc = "failed" => call'[c] = call[c]]_vars

\* bob's call returned False for want of a User node while alice's call has
\* written to the graph, and bob has been registered since
C11_Witness ==
    /\ call[2].pc = "failed"
    /\ call[2].username = "bob"
    /\ call[2].faults = 0
    /\ call[1].pc = "done"
    /\ nodes # <<>>
    /\ "bob" \in users

\* C10: a save_personal_information call that has passed the user check
\* returns True and no longer holds the lock, whatever fails on the way and
\* whatever other calls run.
C10_Progress ==
    \A c \in LiveCalls :
        (call[c].pc = "lock") ~> (call[c].pc = "done" /\ lock # c)

\* a call that met a failure has returned while the other call is running
C10_Witness ==
    \E c, d \in LiveCalls :
        call[c].pc = "done" /\ call[c].faults > 0 /\ Running(d)

\* C12: once a save_personal_information call with a valid fact has returned
\* without meeting a failure, a User node of its username exists and the
\* user holds a RELATES_TO edge with the verb of each valid fact, also when
\* no add_user had completed for that username before the call.
C12_UserCreatedOnFirstFact ==
    \A c \in ConcCalls :
      (/\ call[c].pc \in {"done", "failed"}
       /\ call[c].faults = 0
       /\ ValidInfoList(call[c].info_list) # <<>>)
      => /\ call[c].username \in users
         /\ \A f \in FactsOf(ValidInfoList(call[c].info_list)) :
               \E e \in DOMAIN relates :
                  e[1] = call[c].username /\ e[3] = f.relationship

\* a sentence "You <rel> <val>, recorded around ..., lifetime ..."
IsFactSentence(x, rel, val) ==
    x.form = "fact" /\ x.relationship = rel /\ x.value = val

\* C13 (Scenario C): with alice holding the graph of Scenario A,
\* find_similar_information("alice", ["food"], top_k = 3) whose search returns
\* the one relevant text dish and whose graph queries return records gives at
\* most 3 sentences, among them the sentence of the edge (like, pizza) with
\* lifetime permanent and, right after a sentence of that edge, the category
\* sentence that links pizza to dish.
C13_ScenarioC ==
    (/\ AfterScenarioA /\ call[2].pc = "idle"
     /\ ret.kind = "list"
     /\ ret.username = "alice" /\ ret.keywords = <<Food>> /\ ret.top_k = 3
     /\ ret.texts = {Dish}
     /\ ret.rows # <<>>)
    => /\ Len(ret.sentences) <= 3
       /\ \E j \in 1..Len(ret.sentences) :
             /\ IsFactSentence(ret.sentences[j], Like, Pizza)
             /\ ret.sentences[j].lifetime = "permanent"
       /\ \E j \in 1..(Len(ret.sentences) - 1) :
             /\ IsFactSentence(ret.sentences[j], Like, Pizza)
             /\ ret.sentences[j + 1].form = "category"
             /\ ret.sentences[j + 1].subject = Capitalize(Pizza)
             /\ ret.sentences[j + 1].object = Dish

C15_EmbedOnce ==
    \A c, d \in ConcCalls :
        (c # d /\ collection /\ call[c].faults = 0 /\ call[d].faults = 0)
        => call[c].ecache \cap call[d].ecache = {}

\* C16: with the vector store connected, a re-check that meets no failure
\* passes on to insert_vectors exactly the candidates whose text has no
\* record at that moment (none: the call returns True without inserting);
\* an insert that meets no failure and no clash then adds one record for
\* each of them and touches no other text; the call ends returning True.
C16_RecheckSkips ==
    [][\A c \in ConcCalls :
         /\ (/\ call[c].pc = "recheck" /\ call'[c].pc # "recheck"
             /\ call'[c].faults = call[c].faults /\ collection)
            => LET items == DedupedItems(call[c].ins)
                   existing == {it \in items : CountOf(milvus, it.original_text) > 0}
               IN  /\ call'[c].filtered = items \ existing
                   /\ call'[c].pc = IF items \ existing = {} THEN "done" ELSE "insert"
                   /\ milvus' = milvus
         /\ (/\ call[c].pc = "insert" /\ call'[c].pc # "insert"
             /\ call'[c].faults = call[c].faults /\ collection
             /\ \A it \in call[c].filtered : CountOf(milvus, it.original_text) = 0)
            => /\ call'[c].pc = "done"
               /\ \A it \in call[c].filtered :
                     CountOf(milvus', it.original_text) = 1
               /\ \A r \in DOMAIN milvus : milvus'[r] = milvus[r]]_vars

\* a call is about to insert a batch from which the re-check took some
\* candidates and kept others, having met no failure
C16_Witness ==
    \E c \in ConcCalls :
        /\ call[c].pc = "insert" /\ call[c].faults = 0 /\ collection
        /\ call[c].filtered # {}
        /\ call[c].filtered # DedupedItems(call[c].ins)

\* the steps of the per-fact loop
LoopPcs == {"find", "update", "create", "rel", "cat", "hier"}

\* the (text, tag) pairs of milvus_insertion_data
Queued(r) == {<<r.ins[j].original_text, r.ins[j].element_type>> : j \in 1..Len(r.ins)}

\* the texts of the current fact that still need a vector and have an embedding
Ready(r, t) == t \in r.needed /\ t \in r.ecache

\* what the current fact adds: its value and key as Node, its verb as
\* Relationship, a text with two roles under the first of them
NewPairs(r) ==
    LET info == CurInfo(r)
    IN  {<<Lower(info.value), "Node">> : x \in {1} \cap {B2N(Ready(r, info.value))}}
        \cup {<<Lower(info.relationship), "Relationship">> :
                x \in {1} \cap {B2N(Ready(r, info.relationship)
                                     /\ info.relationship # info.value)}}
        \cup {<<Lower(info.key), "Node">> :
                x \in {1} \cap {B2N(Ready(r, info.key)
                                     /\ info.key \notin {info.value, info.relationship})}}

FirstFactFailedLate ==
    /\ call[1].pc \in {"recheck", "insert"}
    /\ call[1].username = "alice"
    /\ call[1].info_list = <<FactA, FactC>>
    /\ call[1].pre = <<EmptyBag, <<>>>>
    /\ call[1].faults = 1
    /\ Pizza \in DOMAIN nodes
    /\ Pizza \in call[1].needed \cap call[1].ecache

\* C18: a failure of the RELATES_TO, category node or HAS_CATEGORY step of a
\* fact removes nothing from the graph (the fact's node stays) and the loop
\* goes on with the next fact; that fact then gets its RELATES_TO edge, its
\* category node and its HAS_CATEGORY edge.
C18_NoRollbackNoAbort ==
    [][/\ \A c \in Calls :
            (/\ call[c].pc \in {"rel", "cat", "hier"}
             /\ call'[c].faults > call[c].faults)
            => /\ call[c].node_id \in DOMAIN nodes'
               /\ nodes' = nodes /\ relates' = relates /\ hascat' = hascat
               /\ call[c].i < Len(call[c].valid)
                  => /\ call'[c].pc = "find"
                     /\ call'[c].i = call[c].i + 1
                     /\ call'[c].valid = call[c].valid
       /\ (FirstFactFailedLate
            => \E e \in DOMAIN relates :
                  /\ e[1] = "alice" /\ e[3] = Love
                  /\ relates[e].lifetime = "short"
                  /\ Dish \in DOMAIN nodes
                  /\ <<e[2], Dish>> \in hascat)']_vars

\* the RELATES_TO step of the first fact failed and the second fact has its
\* edge
C18_Witness ==
    /\ FirstFactFailedLate
    /\ <<"alice", Pizza, Like>> \notin DOMAIN relates
    /\ \E e \in DOMAIN relates : e[3] = Love

\* C19: after a save_personal_information call that met no failure, every
\* valid fact (key, value, verb) of its list has an Information node of that
\* value, and the user's RELATES_TO edge of that verb points to that node,
\* whatever other nodes exist.
C19_FactNodeByValue ==
    \A c \in Calls :
      CleanRun(c)
      => \A f \in FactsOf(ValidInfoList(call[c].info_list)) :
            /\ f.value \in DOMAIN nodes
            /\ <<call[c].username, f.value, f.relationship>> \in DOMAIN relates

\* C20: right after a save_personal_information call with one valid fact
\* (key, value), no call so far having met a failure, the Information node
\* of that value, if there is one, carries that key, whether it was a
\* category node or a node of another key before.
C20_LatestKeyWins ==
    \A c \in Calls :
      (/\ CleanRun(c)
       /\ \A d \in Calls : d > c => call[d].pc = "idle"
       /\ \A d \in Calls : call[d].faults = 0
       /\ Len(call[c].info_list) = 1
       /\ IsValid(call[c].info_list[1])
       /\ call[c].info_list[1].value \in DOMAIN nodes)
      => nodes[call[c].info_list[1].value].key = call[c].info_list[1].key

\* the best score of a stored text over the query vectors of the search
BestScore(text, queries) ==
    SetMax({Cosine(queries[j], r.embedding) :
              j \in 1..Len(queries), r \in RecordsOf(milvus, text)})

\* C21: the hits of a search hold each text once, with the highest score the
\* text has over all query vectors, hold only scores >= the threshold, are
\* sorted by score descending and are at most top_k; when they are fewer,
\* no text that reaches the threshold is left out.
C21_SearchResult ==
    (ret.kind = "hits" /\ ret.hits # "raised")
    => LET h == ret.hits
           q == ret.query_embeddings
       IN  /\ \A j, k \in 1..Len(h) :
                 h[j].original_text = h[k].original_text => j = k
           /\ \A j \in 1..Len(h) : h[j].score >= ret.similarity_threshold
           /\ \A j \in 1..Len(h) : h[j].score = BestScore(h[j].original_text, q)
           /\ \A j \in 1..(Len(h) - 1) : h[j].score >= h[j + 1].score
           /\ Len(h) <= ret.top_k
           /\ Len(h) < ret.top_k
              => \A r \in DOMAIN milvus :
                    (q # <<>> /\ BestScore(r.original_text, q) >= ret.similarity_threshold)
                    => \E j \in 1..Len(h) : h[j].original_text = r.original_text

\* the HAS_CATEGORY edges whose source node has a directly matched edge of
\* the user
MatchedCategories(username, texts) ==
    {h \in hascat : \E e \in DirectEdges(username, texts) : e[2] = h[1]}

\* the merged records by kind: the record of a RELATES_TO edge that query 1
\* returned as a direct match, the record of a HAS_CATEGORY edge, and the
\* record of a RELATES_TO edge that only query 3 returned
IsDirectRow(x) ==
    /\ x.rel_id[1] = "RELATES_TO"
    /\ 1 \in ret.queries \ ret.qfail
    /\ x.rel_id[2] \in DirectEdges(ret.username, ret.texts)
IsCategoryRow(x) == x.rel_id[1] = "HAS_CATEGORY"
IsSubstringRow(x) == x.rel_id[1] = "RELATES_TO" /\ ~IsDirectRow(x)

\* C22: the merged records hold each edge identifier once, a category
\* record that query 1 returned is kept in the form query 1 gave it (with
\* its parent columns), and in the order of the records the direct matches
\* come first, the category records second and the records that only the
\* substring match found last.
C22_MergePriority ==
    ret.kind = "list"
    => /\ \A j, k \in 1..Len(ret.rows) :
             ret.rows[j].rel_id = ret.rows[k].rel_id => j = k
       /\ \A j \in 1..Len(ret.rows) :
             (/\ IsCategoryRow(ret.rows[j])
              /\ 1 \in ret.queries \ ret.qfail
              /\ Cardinality(CategoryPaths(DirectEdges(ret.username, ret.texts)))
                   <= ret.top_k * 5
              /\ ret.rows[j].rel_id[2] \in MatchedCategories(ret.username, ret.texts))
             => ret.rows[j].parent_value # Empty
       /\ \A j, k \in 1..Len(ret.rows) :
             j < k => /\ ~(IsCategoryRow(ret.rows[j]) /\ IsDirectRow(ret.rows[k]))
                      /\ ~(/\ IsSubstringRow(ret.rows[j])
                            /\ (IsDirectRow(ret.rows[k]) \/ IsCategoryRow(ret.rows[k])))

\* the merged records hold a direct match, a category record and a record of
\* the substring match only
C22_Witness ==
    /\ ret.kind = "list"
    /\ \E j, k, l \in 1..Len(ret.rows) :
          /\ IsDirectRow(ret.rows[j])
          /\ IsCategoryRow(ret.rows[k])
          /\ IsSubstringRow(ret.rows[l])

\* the user's RELATES_TO edges that a sentence 'You <rel> <val>' describes
EdgesOfSentence(username, x) ==
    {e \in DOMAIN relates :
        e[1] = username /\ Lower(e[3]) = x.relationship /\ Lower(e[2]) = x.value}

\* C23: the records of RELATES_TO edges come newest edge first, and the
\* time a sentence shows for an edge is the time the edge was inserted.
C23_RecencyOrder ==
    (/\ ret.kind = "list" /\ ret.qfail = {}
     /\ collection /\ \A c \in Calls : call[c].faults = 0)
    => /\ \A j \in 1..Len(ret.sentences) :
             ret.sentences[j].form = "fact"
             => \A e \in EdgesOfSentence(ret.username, ret.sentences[j]) :
                   ret.sentences[j].recorded = relates[e].createdAt
       /\ \A j, k \in 1..Len(ret.rows) :
             (/\ j < k
              /\ ret.rows[j].rel_id[1] = "RELATES_TO"
              /\ ret.rows[k].rel_id[1] = "RELATES_TO"
              /\ IsDirectRow(ret.rows[j]) = IsDirectRow(ret.rows[k]))
             => relates[ret.rows[j].rel_id[2]].createdAt
                  >= relates[ret.rows[k].rel_id[2]].createdAt

\* C24: every category item in the result is the target of a HAS_CATEGORY
\* edge whose source node was directly matched.
C24_ExpansionGated ==
    (/\ ret.kind = "list" /\ ret.qfail = {}
     /\ collection /\ \A c \in Calls : call[c].faults = 0)
    => /\ \A j \in 1..Len(ret.rows) :
             IsCategoryRow(ret.rows[j])
             => ret.rows[j].rel_id[2] \in MatchedCategories(ret.username, ret.texts)
       /\ \A j \in 1..Len(ret.sentences) :
             (/\ ret.sentences[j].form = "fact"
              /\ ret.sentences[j].relationship = Lower(HasCategory))
             => \E h \in MatchedCategories(ret.username, ret.texts) :
                   Lower(h[2]) = ret.sentences[j].value

\* C25: two calls of two different users that bring the same fact both
\* complete with the FactNode of its value in the graph and a RELATES_TO
\* edge from each user to it, however their steps interleave.
C25_UpsertsNeedNoLock ==
    \A c, d \in ConcCalls :
        (/\ c # d /\ collection
         /\ call[c].pc = "done" /\ call[d].pc = "done"
         /\ call[c].faults = 0 /\ call[d].faults = 0
         /\ call[c].username # call[d].username
         /\ call[c].info_list = call[d].info_list)
        => \A j \in 1..Len(call[c].info_list) :
              LET info == call[c].info_list[j]
              IN  /\ info.value \in DOMAIN nodes
                  /\ <<call[c].username, info.value, info.relationship>> \in DOMAIN relates
                  /\ <<call[d].username, info.value, info.relationship>> \in DOMAIN relates

\* C26: the collection holds at most one record among the texts that differ
\* only by case or by leading and trailing whitespace.
C26_NormalizationAgreement ==
    (collection /\ \A c \in Calls : call[c].faults = 0)
    => \A x, y \in Entities(milvus) :
          Lower(Strip(x[1].original_text)) = Lower(Strip(y[1].original_text))
          => x = y

\* C27: whether its lookups succeed or fail, the re-check passes on to
\* insert_vectors no candidate whose text has a record already, so that no
\* second record of that text is inserted.
C27_FailedLookupNotAbsence ==
    [][\A c \in ConcCalls :
         (/\ call[c].pc = "recheck" /\ call'[c].pc = "insert" /\ collection)
         => \A it \in call'[c].filtered : CountOf(milvus, it.original_text) = 0]_vars

\* the valid facts that the completed calls of username brought
OwnFacts(username) ==
    UNION {{f \in FactsOf(call[c].info_list) : IsValid(f)} :
             c \in {d \in Calls : call[d].pc = "done" /\ call[d].username = username}}

\* C28: what a retrieval shows to a user stems from that user's facts: every
\* category sentence '<Value> is a <key> of <category>' names
\* a value and its category from one of the user's own facts, and a key that
\* is the literal "category" or the key of one of the user's own facts on
\* that category value.  (Two runs that differ only in another user's facts
\* then show the same category sentences.)
C28_CrossUserIsolation ==
    (/\ ret.kind = "list" /\ ret.qfail = {}
     /\ collection /\ \A c \in Calls : call[c].faults = 0)
    => \A j \in 1..Len(ret.sentences) :
          ret.sentences[j].form = "category"
          => /\ \E f \in OwnFacts(ret.username) :
                   /\ Capitalize(f.value) = ret.sentences[j].subject
                   /\ Lower(f.key) = ret.sentences[j].object
             /\ \/ ret.sentences[j].key = Lower(CategoryKey)
                \/ \E g \in OwnFacts(ret.username) :
                      /\ Lower(g.value) = ret.sentences[j].object
                      /\ Lower(g.key) = ret.sentences[j].key

\* C29: no two sentences 'You <relationship> <value>' of one result
\* describe the same pair.
C29_NoRepeatedFact ==
    (/\ ret.kind = "list" /\ ret.qfail = {}
     /\ collection /\ \A c \in Calls : call[c].faults = 0)
    => \A j, k \in 1..Len(ret.sentences) :
          (/\ ret.sentences[j].form = "fact" /\ ret.sentences[k].form = "fact"
           /\ ret.sentences[j].relationship = ret.sentences[k].relationship
           /\ ret.sentences[j].value = ret.sentences[k].value)
          => j = k

\* C30: the merge of the category node of a fact leaves the key of a node
\* that holds that value under a real key (not "Category") as it is, and
\* the fact's steps add no HAS_CATEGORY edge from a node to itself.
C30_CategoryKeepsRealKey ==
    [][\A c \in RetCalls :
         /\ (/\ call[c].pc = "cat" /\ call'[c].pc = "hier"
             /\ \A d \in Calls : call[d].faults = 0
             /\ CurInfo(call[c]).key \in DOMAIN nodes
             /\ nodes[CurInfo(call[c]).key].key # CategoryKey)
            => nodes'[CurInfo(call[c]).key].key = nodes[CurInfo(call[c]).key].key
         /\ (call[c].pc = "hier" /\ call'[c].pc # "hier")
            => \A h \in hascat' \ hascat : h[1] # h[2]]_vars

====
